---- MODULE Spec2Model ----
(***************************************************************************)
(* MOOS - Multiple Ocean Optics Spectrometers (moos.cpp).                  *)
(*                                                                         *)
(* The module models                                                       *)
(*   - the free functions average_vector and split_string,                 *)
(*   - the methods of class Device (read_pixels, read_wavelengths,         *)
(*     repair_false_pixels, read_spectrum, calc_transmission, save,        *)
(*     model_name, serial_number),                                         *)
(*   - the control flow of Meter::run (pre, task, post) against a          *)
(*     SeaBreeze driver whose error codes are chosen nondeterministically. *)
(*                                                                         *)
(* C++ doubles are modelled as exact rationals [n, d] in lowest terms;     *)
(* d = 0 stands for the non-finite results of a division by zero.          *)
(* Vectors are sequences; the source's 0-based index i is element i+1.     *)
(***************************************************************************)
EXTENDS Integers, Sequences, FiniteSets, TLC

VARIABLES
    \* ---- Meter::run ----
    pc,          \* position of the control flow in Meter::run
    cfg,         \* the Meter's option fields as set by Meter::initialize
    hw,          \* the attached hardware: the serial number per device index
    build,       \* which call of moos.cpp:775-776 the compiled program makes first
    devices,     \* Meter::devices
    error,       \* Meter::error
    integration_times_micro_seconds,
    it,          \* loop counter of Meter::task
    idev,        \* position of the running range-for over devices (0-based)
    log,         \* what the process did to the outside: driver calls, files, cin.get, sleeps
    \* ---- a single call of a function or method on drawn inputs ----
    upc,         \* "off" | "ready" | "done"
    arg,         \* the inputs of the call
    res          \* the outputs of the call

vars == <<pc, cfg, hw, build, devices, error, integration_times_micro_seconds, it,
          idev, log, upc, arg, res>>

runVars == <<pc, cfg, hw, build, devices, error, integration_times_micro_seconds, it,
             idev, log>>

unitVars == <<upc, arg, res>>

(***************************************************************************)
(* Bounds of the model.                                                    *)
(***************************************************************************)
MaxLen == 5          \* longest vector handed to average_vector
MaxBoxcar == 2       \* largest boxcar handed to average_vector
MaxSample == 2       \* samples are drawn from 0..MaxSample (and a few negatives)

(***************************************************************************)
(* double arithmetic, as exact rationals.                                  *)
(***************************************************************************)
Abs(x) == IF x < 0 THEN -x ELSE x

RECURSIVE GCD(_, _)
GCD(a, b) == IF b = 0 THEN a ELSE GCD(b, a % b)

Sign(x) == IF x < 0 THEN -1 ELSE IF x > 0 THEN 1 ELSE 0

\* n/d in lowest terms with d > 0; x/0 is +inf, -inf or NaN as in IEEE 754.
Rat(n, d) ==
    IF d = 0 THEN [n |-> Sign(n), d |-> 0]
    ELSE LET g == GCD(Abs(n), Abs(d))
             s == IF d < 0 THEN -1 ELSE 1
         IN  [n |-> s * (n \div g), d |-> Abs(d) \div g]

R(k) == [n |-> k, d |-> 1]

RAdd(a, b) == Rat(a.n * b.d + b.n * a.d, a.d * b.d)
RSub(a, b) == Rat(a.n * b.d - b.n * a.d, a.d * b.d)
RMul(a, b) == Rat(a.n * b.n, a.d * b.d)
RDiv(a, b) == Rat(a.n * b.d, a.d * b.n)
RLess(a, b) == a.n * b.d < b.n * a.d

\* F(e), with e evaluated once: a local variable of the source
Let(e, F(_)) == CHOOSE r \in {F(v) : v \in {e}} : TRUE

\* X[i] of the source
At(X, i) == X[i + 1]
\* X[i] = v of the source
Put(X, i, v) == [X EXCEPT ![i + 1] = v]

(***************************************************************************)
(* average_vector, moos.cpp:92-126.  The vector is changed in place; the   *)
(* three loops are run in the source's order.  n - boxcar is unsigned:     *)
(* for n < boxcar it wraps to 2^32 - (boxcar - n), which is above every    *)
(* index, so the centre loop runs into X[i] with i >= n (out of bounds).   *)
(***************************************************************************)
\* i < n - boxcar in unsigned arithmetic
ULessDiff(i, n, boxcar) == IF n >= boxcar THEN i < n - boxcar ELSE TRUE

\* average += X[i+j] + X[i-j] for j = 1..boxcar
RECURSIVE CentreSum(_, _, _, _, _)
CentreSum(X, i, j, boxcar, average) ==
    IF j <= boxcar
    THEN CentreSum(X, i, j + 1, boxcar,
                   RAdd(average, RAdd(At(X, i + j), At(X, i - j))))
    ELSE average

\* the value stored into X[i] by one pass of the centre loop
CentreValue(X, i, boxcar) ==
    RDiv(CentreSum(X, i, 1, boxcar, At(X, i)), R(1 + 2 * boxcar))

\* for (i = boxcar; i < n - boxcar; i++) ...; ub: an index outside 0..n-1 is used
RECURSIVE CentreLoop(_, _, _, _)
CentreLoop(X, i, n, boxcar) ==
    IF ULessDiff(i, n, boxcar)
    THEN IF i + boxcar >= n
         THEN [X |-> X, ub |-> TRUE, iterations |-> 1]
         ELSE LET r == CentreLoop(Put(X, i, CentreValue(X, i, boxcar)), i + 1, n, boxcar)
              IN  [r EXCEPT !.iterations = @ + 1]
    ELSE [X |-> X, ub |-> FALSE, iterations |-> 0]

\* average += X[i] for i = from .. to-1
RECURSIVE RangeSum(_, _, _, _)
RangeSum(X, from, to, average) ==
    IF from < to THEN RangeSum(X, from + 1, to, RAdd(average, At(X, from)))
    ELSE average

\* X[i] = average for i = from .. to-1
RECURSIVE RangeFill(_, _, _, _)
RangeFill(X, from, to, average) ==
    IF from < to THEN RangeFill(Put(X, from, average), from + 1, to, average)
    ELSE X

\* the left end filled with its first sample
LeftEnd_First(X, boxcar) == RangeFill(X, 0, boxcar, At(X, 0))

LeftEnd(X, boxcar) ==
    RangeFill(X, 0, boxcar, RDiv(RangeSum(X, 0, boxcar, R(0)), R(boxcar)))

RightEnd(X, n, boxcar) ==
    RangeFill(X, n - boxcar, n, RDiv(RangeSum(X, n - boxcar, n, R(0)), R(boxcar)))

average_vector(X, boxcar) ==
    IF X = <<>> \/ boxcar <= 0
    THEN [X |-> X, ret |-> FALSE, ub |-> FALSE, iterations |-> 0]
    ELSE Let(CentreLoop(X, boxcar, Len(X), boxcar), LAMBDA c :
         IF c.ub \/ boxcar > Len(X)
         THEN [X |-> c.X, ret |-> TRUE, ub |-> TRUE, iterations |-> c.iterations]
         ELSE [X |-> RightEnd(LeftEnd(c.X, boxcar), Len(X), boxcar), ret |-> TRUE,
               ub |-> FALSE, iterations |-> c.iterations])

(***************************************************************************)
(* Strings are sequences of one-character strings.                         *)
(***************************************************************************)
\* string::find(delimiter, i) converted to int: the first position >= i
\* holding the delimiter, or -1 (npos)
RECURSIVE Find(_, _, _)
Find(s, delimiter, i) ==
    IF i >= Len(s) THEN -1
    ELSE IF At(s, i) = delimiter THEN i
    ELSE Find(s, delimiter, i + 1)

\* string::substr(i, count); count = -1 stands for npos (to the end)
Substr(s, i, count) ==
    LET last == IF count = -1 \/ i + count > Len(s) THEN Len(s) ELSE i + count
    IN  SubSeq(s, i + 1, last)

(***************************************************************************)
(* split_string, moos.cpp:146-165.                                         *)
(***************************************************************************)
RECURSIVE SplitLoop(_, _, _, _)
SplitLoop(s, delimiter, i, array) ==
    IF i < Len(s)
    THEN LET j == Find(s, delimiter, i)
             sub == IF j = -1 THEN Substr(s, i, -1) ELSE Substr(s, i, j - i)
         IN  IF j = -1
             THEN Append(array, sub)
             ELSE SplitLoop(s, delimiter, j + 1, Append(array, sub))
    ELSE array

split_string(s, delimiter) == SplitLoop(s, delimiter, 0, <<>>)

(***************************************************************************)
(* atof (strtod) on decimal text: digits, an optional fraction and an      *)
(* optional exponent; the longest prefix that is a number is converted and *)
(* text that starts with no number converts to 0.0.                        *)
(***************************************************************************)
Digits == {"0", "1", "2", "3", "4", "5", "6", "7", "8", "9"}

DigitValue(c) ==
    CASE c = "0" -> 0 [] c = "1" -> 1 [] c = "2" -> 2 [] c = "3" -> 3 [] c = "4" -> 4
      [] c = "5" -> 5 [] c = "6" -> 6 [] c = "7" -> 7 [] c = "8" -> 8 [] c = "9" -> 9

\* the first position >= i that holds no digit
RECURSIVE DigitsEnd(_, _)
DigitsEnd(s, i) ==
    IF i < Len(s) /\ At(s, i) \in Digits THEN DigitsEnd(s, i + 1) ELSE i

\* the number written by the digits s[i..j-1], after the digits worth acc
RECURSIVE DigitsValue(_, _, _, _)
DigitsValue(s, i, j, acc) ==
    IF i < j THEN DigitsValue(s, i + 1, j, 10 * acc + DigitValue(At(s, i))) ELSE acc

RECURSIVE Pow10(_)
Pow10(k) == IF k <= 0 THEN 1 ELSE 10 * Pow10(k - 1)

atof(s) ==
    LET a == DigitsEnd(s, 0)
        dot == a < Len(s) /\ At(s, a) = "."
        b == IF dot THEN DigitsEnd(s, a + 1) ELSE a
        nfrac == IF dot THEN b - a - 1 ELSE 0
        hasMantissa == a > 0 \/ nfrac > 0
        mantissa == Rat(DigitsValue(s, 0, a, 0) * Pow10(nfrac)
                            + (IF dot THEN DigitsValue(s, a + 1, b, 0) ELSE 0),
                        Pow10(nfrac))
        hasE == b < Len(s) /\ At(s, b) \in {"e", "E"}
        neg == hasE /\ b + 1 < Len(s) /\ At(s, b + 1) = "-"
        pos == hasE /\ b + 1 < Len(s) /\ At(s, b + 1) = "+"
        e0 == IF neg \/ pos THEN b + 2 ELSE b + 1
        e1 == IF hasE THEN DigitsEnd(s, e0) ELSE e0
        exponent == IF hasE /\ e1 > e0 THEN DigitsValue(s, e0, e1, 0) ELSE 0
    IN  IF ~hasMantissa THEN R(0)
        ELSE IF neg THEN RDiv(mantissa, R(Pow10(exponent)))
        ELSE RMul(mantissa, R(Pow10(exponent)))

\* unsigned(t_s * 1e6): the product cut to a whole number (t_s >= 0 here)
Microseconds(t_s) ==
    LET p == RMul(t_s, R(1000000)) IN p.n \div p.d

(***************************************************************************)
(* Meter::pre, moos.cpp:786-803: the integration-time string is split at   *)
(* ':' and padded to one entry per device, each converted to microseconds. *)
(***************************************************************************)
\* PadStrArr repeating the first value instead of the last
RECURSIVE PadStrArr_First(_, _, _)
PadStrArr_First(str_arr, n, ndev) ==
    IF Len(str_arr) < ndev
    THEN PadStrArr_First(Append(str_arr, str_arr[1]), n, ndev)
    ELSE str_arr

\* for (unsigned i = n; i < devices.size(); i++) str_arr.push_back(str_arr[n-1])
RECURSIVE PadStrArr(_, _, _)
PadStrArr(str_arr, n, ndev) ==
    IF Len(str_arr) < ndev
    THEN PadStrArr(Append(str_arr, At(str_arr, n - 1)), n, ndev)
    ELSE str_arr

\* ub: str_arr[n-1] is read from an empty array (an empty string was split)
ParseIntegrationTimes(integration_time_str, ndev) ==
    LET split == split_string(integration_time_str, ":")
    IN  IF split = <<>> /\ ndev > 0
        THEN [times |-> <<>>, ub |-> TRUE]
        ELSE LET str_arr == PadStrArr(split, Len(split), ndev)
             IN  [times |-> [i \in 1..ndev |-> Microseconds(atof(str_arr[i]))],
                  ub |-> FALSE]

(***************************************************************************)
(* What the process does to the outside, in order: one record per driver   *)
(* call (with the error code the driver returned), written file, cin.get,  *)
(* TextDiagram and sleep.                                                  *)
(***************************************************************************)
Event(fn, dev, err, what) ==
    [fn |-> fn, dev |-> dev, err |-> err, what |-> what, n |-> 0]

Drv(fn, dev, err) == Event(fn, dev, err, "")

\* check_for_error without the exit: the code is reported and true returned
check_for_error_Reports(e) == "true"

(***************************************************************************)
(* check_for_error, moos.cpp:329-342: a non-zero code is printed and the   *)
(* process exits; otherwise true is returned.                              *)
(***************************************************************************)
check_for_error(e) == IF e # 0 THEN "exit" ELSE "true"

(***************************************************************************)
(* class Device, moos.cpp:348-576.                                         *)
(***************************************************************************)
Device(index) ==
    [index |-> index, pixels |-> 0, error |-> 0, wavelengths |-> <<>>,
     formatted_spectrum |-> <<>>, background_spectrum |-> <<>>,
     reference_spectrum |-> <<>>, buffer |-> <<>>, transmission |-> <<>>]

\* vector::resize(n, 0.0)
Resize(X, n) == [i \in 1..n |-> IF i <= Len(X) THEN X[i] ELSE R(0)]

\* Device::serial_number, moos.cpp:563-575.  e is the code the driver stores
\* into error, serial the string it stores into buffer.
serial_number(index, serial, e) ==
    LET ev == <<Drv("get_serial_number", index, e)>>
    IN  IF check_for_error(e) = "exit"
        THEN [ret |-> "", exit |-> TRUE, events |-> ev]
        ELSE IF e # 0
             THEN [ret |-> "unknown", exit |-> FALSE, events |-> ev]
             ELSE [ret |-> serial, exit |-> FALSE, events |-> ev]

\* Device::model_name, moos.cpp:549-560.
model_name(index, model, e) ==
    LET ev == <<Drv("get_model", index, e)>>
    IN  IF check_for_error(e) = "exit"
        THEN [ret |-> "", exit |-> TRUE, events |-> ev]
        ELSE IF e # 0
             THEN [ret |-> "unknown", exit |-> FALSE, events |-> ev]
             ELSE [ret |-> model, exit |-> FALSE, events |-> ev]

\* RepairPixel with the upper limit of the band forgotten
RepairPixel_LowerOnly(buffer, i, corr) ==
    IF RLess(At(buffer, i), RMul(Rat(1, 2), corr))
    THEN Put(buffer, i, corr)
    ELSE buffer

\* if (buffer[i] < 0.5 * corr || buffer[i] > 2 * corr) buffer[i] = corr
RepairPixel(buffer, i, corr) ==
    IF RLess(At(buffer, i), RMul(Rat(1, 2), corr)) \/ RLess(RMul(R(2), corr), At(buffer, i))
    THEN Put(buffer, i, corr)
    ELSE buffer

\* for (int i = 0; i < i_correct; i++) ...
RECURSIVE RepairLoop(_, _, _, _)
RepairLoop(buffer, i, i_correct, corr) ==
    IF i < i_correct
    THEN RepairLoop(RepairPixel(buffer, i, corr), i + 1, i_correct, corr)
    ELSE buffer

\* Device::repair_false_pixels, moos.cpp:423-441.  The serial number is asked
\* of the driver once for the comparison and once more for the message when
\* not silent; errs[k] is the code the driver returns to the k-th query.
\* ub: buffer[2] is read outside a buffer shorter than 3.
repair_false_pixels(index, serial, buffer, silent, errs) ==
    Let(serial_number(index, serial, errs[1]), LAMBDA q1 :
    Let(serial_number(index, serial, errs[2]), LAMBDA q2 :
    Let(IF silent THEN q1.events ELSE q1.events \o q2.events, LAMBDA ev :
        IF q1.exit
        THEN [buffer |-> buffer, exit |-> TRUE, ub |-> FALSE, events |-> q1.events]
        ELSE IF q1.ret # "FLMS03141"
        THEN [buffer |-> buffer, exit |-> FALSE, ub |-> FALSE, events |-> q1.events]
        ELSE IF ~silent /\ q2.exit
        THEN [buffer |-> buffer, exit |-> TRUE, ub |-> FALSE, events |-> ev]
        ELSE IF Len(buffer) <= 2
        THEN [buffer |-> buffer, exit |-> FALSE, ub |-> TRUE, events |-> ev]
        ELSE [buffer |-> RepairLoop(buffer, 0, 2, At(buffer, 2)),
              exit |-> FALSE, ub |-> FALSE, events |-> ev])))

\* Tau with the background left out of the denominator
Tau_RawReference(dev, pixel) ==
    RDiv(RSub(At(dev.formatted_spectrum, pixel), At(dev.background_spectrum, pixel)),
         At(dev.reference_spectrum, pixel))

\* tau = (raw[pixel] - background[pixel]) / (reference[pixel] - background[pixel])
Tau(dev, pixel) ==
    RDiv(RSub(At(dev.formatted_spectrum, pixel), At(dev.background_spectrum, pixel)),
         RSub(At(dev.reference_spectrum, pixel), At(dev.background_spectrum, pixel)))

\* for (pixel = 0; pixel < raw.size(); pixel++) result.push_back(tau)
RECURSIVE TransmissionLoop(_, _, _)
TransmissionLoop(dev, pixel, result) ==
    IF pixel < Len(dev.formatted_spectrum)
    THEN TransmissionLoop(dev, pixel + 1, Append(result, Tau(dev, pixel)))
    ELSE result

\* calc_transmission returning an empty default where a spectrum is missing
calc_transmission_Default(dev) ==
    IF \/ Len(dev.formatted_spectrum) # dev.pixels
       \/ Len(dev.background_spectrum) # dev.pixels
       \/ Len(dev.reference_spectrum) # dev.pixels
    THEN [dev |-> [dev EXCEPT !.transmission = <<>>], outcome |-> "false"]
    ELSE [dev |-> [dev EXCEPT !.transmission = TransmissionLoop(dev, 0, <<>>)],
          outcome |-> "true"]

\* Device::calc_transmission, moos.cpp:490-508.  cassert is included and
\* NDEBUG is not defined in the source: a failing assert aborts the process.
calc_transmission(dev) ==
    IF \/ Len(dev.formatted_spectrum) # dev.pixels
       \/ Len(dev.background_spectrum) # dev.pixels
       \/ Len(dev.reference_spectrum) # dev.pixels
    THEN [dev |-> dev, outcome |-> "abort"]
    ELSE [dev |-> [dev EXCEPT !.transmission = TransmissionLoop(dev, 0, <<>>)],
          outcome |-> "true"]

(***************************************************************************)
(* The driver's side of a device.  A device of serial number FLMN01736     *)
(* reports a spectrum length of 2048 (moos.cpp:385-387); the other devices *)
(* of the model report HwPixels.                                           *)
(***************************************************************************)
HwPixels == 4        \* spectrum length reported by the modelled devices

ReportedLength(serial) == IF serial = "FLMN01736" THEN 2048 ELSE HwPixels

\* the wavelengths the driver stores for a device of p pixels
DriverWavelengths(p) == [i \in 1..p |-> R(400 + i)]

\* the raw spectrum the driver stores in the k-th scan (k = 0, 1, ...) of a
\* device of p pixels while the Meter runs: the light changes from scan to
\* scan, and every third spectrum has a first pixel far above the others
ScanData(p, k) ==
    [i \in 1..p |-> CASE k % 3 = 0 -> R(8)
                      [] k % 3 = 1 -> IF i = 1 THEN R(9) ELSE R(1)
                      [] OTHER -> R(4)]

\* Device::read_pixels, moos.cpp:373-397.  errs[1] is the code returned by the
\* length query, errs[2] and errs[3] those of the serial number queries.
read_pixels(dev, serial, silent, errs) ==
    Let(<<Drv("get_formatted_spectrum_length", dev.index, errs[1])>>, LAMBDA len :
    Let(serial_number(dev.index, serial, errs[2]), LAMBDA q1 :
    Let(serial_number(dev.index, serial, errs[3]), LAMBDA q2 :
    Let([dev EXCEPT !.pixels = ReportedLength(serial), !.error = errs[1]], LAMBDA d1 :
        IF check_for_error(dev.error) = "exit"
        THEN [dev |-> dev, exit |-> TRUE, events |-> <<>>]
        ELSE IF check_for_error(errs[1]) = "exit"
        THEN [dev |-> d1, exit |-> TRUE, events |-> len]
        ELSE IF q1.exit
        THEN [dev |-> d1, exit |-> TRUE, events |-> len \o q1.events]
        ELSE IF q1.ret # "FLMN01736"
        THEN [dev |-> d1, exit |-> FALSE, events |-> len \o q1.events]
        ELSE IF ~silent /\ q2.exit
        THEN [dev |-> d1, exit |-> TRUE, events |-> len \o q1.events \o q2.events]
        ELSE [dev |-> [d1 EXCEPT !.pixels = 128], exit |-> FALSE,
              events |-> len \o q1.events \o (IF silent THEN <<>> ELSE q2.events)]))))

\* Device::read_wavelengths, moos.cpp:403-417.
read_wavelengths(dev, e) ==
    LET ev == <<Drv("get_wavelengths", dev.index, e)>>
        d1 == [dev EXCEPT !.wavelengths = DriverWavelengths(dev.pixels), !.error = e]
    IN  [dev |-> d1, exit |-> check_for_error(e) = "exit", events |-> ev]

\* Accumulate keeping the last scan only
Accumulate_Last(spectrum, buffer) == buffer

\* formatted_spectrum[pixel] += buffer[pixel] for every pixel
Accumulate(spectrum, buffer) ==
    [i \in 1..Len(spectrum) |-> RAdd(spectrum[i], buffer[i])]

\* formatted_spectrum[pixel] *= reverse_denominator for every pixel
Scale(spectrum, reverse_denominator) ==
    [i \in 1..Len(spectrum) |-> RMul(spectrum[i], reverse_denominator)]

\* The scan loop of Device::read_spectrum, moos.cpp:458-473.  resp[k] is what
\* the driver does in the k-th scan: the code e and the raw spectrum data of
\* seabreeze_get_formatted_spectrum, and the codes errs of the serial number
\* queries of repair_false_pixels.  The loop ends early where the process exits.
RECURSIVE ScanLoop(_, _, _, _, _, _, _)
ScanLoop(dev, serial, scans_to_average, silent, resp, scan_, events) ==
    IF scan_ >= scans_to_average
    THEN [dev |-> dev, exit |-> FALSE, ub |-> FALSE, events |-> events]
    ELSE
    Let(resp[scan_ + 1], LAMBDA r :
    Let(events \o <<Drv("get_formatted_spectrum", dev.index, r.e)>>, LAMBDA ev :
    Let([dev EXCEPT !.buffer = r.data, !.error = r.e], LAMBDA d1 :
        IF check_for_error(r.e) = "exit"
        THEN [dev |-> d1, exit |-> TRUE, ub |-> FALSE, events |-> ev]
        ELSE
        Let(repair_false_pixels(dev.index, serial, d1.buffer, silent, r.errs), LAMBDA rep :
            IF rep.exit \/ rep.ub
            THEN [dev |-> d1, exit |-> rep.exit, ub |-> rep.ub,
                  events |-> ev \o rep.events]
            ELSE
            Let([d1 EXCEPT !.buffer = rep.buffer,
                           !.formatted_spectrum = Accumulate(@, rep.buffer)], LAMBDA d2 :
                ScanLoop(d2, serial, scans_to_average, silent, resp, scan_ + 1,
                         ev \o rep.events))))))

\* Device::read_spectrum, moos.cpp:444-481.
read_spectrum(dev, serial, scans_to_average, boxcar_width, silent, resp) ==
    Let([dev EXCEPT
           !.buffer = IF Len(@) # dev.pixels THEN Resize(@, dev.pixels) ELSE @,
           !.formatted_spectrum =
               IF Len(@) # dev.pixels THEN Resize(@, dev.pixels)
               ELSE [i \in 1..dev.pixels |-> R(0)]], LAMBDA d0 :
    Let(ScanLoop(d0, serial, scans_to_average, silent, resp, 0, <<>>), LAMBDA loop :
        IF loop.exit \/ loop.ub
        THEN loop
        ELSE
        Let(average_vector(Scale(loop.dev.formatted_spectrum,
                                 RDiv(R(1), R(scans_to_average))),
                           boxcar_width), LAMBDA avg :
            [dev |-> [loop.dev EXCEPT !.formatted_spectrum = avg.X],
             exit |-> FALSE, ub |-> avg.ub, events |-> loop.events])))

\* Device::save, moos.cpp:513-529.  opened: whether the file could be opened.
save(dev, values, what, opened) ==
    IF Len(dev.wavelengths) # Len(values) \/ Len(dev.wavelengths) # dev.pixels
    THEN [outcome |-> "abort", events |-> <<>>]
    ELSE IF ~opened
    THEN [outcome |-> "exit", events |-> <<>>]
    ELSE [outcome |-> "true", events |-> <<Event("save", dev.index, 0, what)>>]

\* Device::save_spectrum, moos.cpp:534-537.
save_spectrum(dev, what, opened) == save(dev, dev.formatted_spectrum, what, opened)

\* Device::save_transmission, moos.cpp:540-546.
save_transmission(dev, what, opened) ==
    IF dev.transmission = <<>>
    THEN [outcome |-> "false", events |-> <<>>]
    ELSE save(dev, dev.transmission, what, opened)

(***************************************************************************)
(* class Meter, moos.cpp:583-1002.                                         *)
(***************************************************************************)
MAX_DEVICES == 16
\* <climits> of the 32-bit target (Raspberry Pi); "infinite loop" of initialize
LONG_MAX == 2147483647

MaxAttached == 2     \* most spectrometers the driver can open
MaxIterations == 2   \* largest finite --iterations option

Serials == {"FLMS03141", "FLMN01736", "USB2+H00001"}

\* the serial numbers of the spectrometers attached while the Meter runs
AttachedSerials == {"FLMS03141", "USB2+H00001"}

ErrorCodes == {0, 1}

\* Meter::initialize, moos.cpp:667-673: iterations from the value of atoi
initialize_iterations(v) == IF v < 1 THEN LONG_MAX ELSE v

\* the option fields of a Meter after Meter::initialize
Configs ==
    [iterations : {initialize_iterations(v) : v \in 0..MaxIterations},
     integration_time_str : {<<"0", ".", "0", "0", "1", ":", "0", ".", "0", "0", "2">>},
     scans_to_average : {1, 2},
     post_scans_sleep : {Rat(1, 20)},
     boxcar_width : {0, 1},
     trigger_mode : {0},
     calibrate : BOOLEAN,
     silent : BOOLEAN]

Init ==
    /\ pc = "pre_open"
    /\ cfg \in Configs
    /\ hw \in [0..(MaxAttached - 1) -> AttachedSerials]
    /\ build \in {"serial_number", "model_name"}
    /\ devices = <<>>
    /\ error = 0
    /\ integration_times_micro_seconds = <<>>
    /\ it = 0
    /\ idev = 0
    /\ log = <<>>
    /\ upc = "off"
    /\ arg = <<>>
    /\ res = <<>>

\* the device the running range-for is at, and its serial number in the driver
ThisDevice == devices[idev + 1]
ThisSerial == hw[ThisDevice.index]

\* the next pass of a range-for over devices, or the statement after it
Advance(here, next) ==
    IF idev + 1 < Len(devices)
    THEN pc' = here /\ idev' = idev + 1
    ELSE pc' = next /\ idev' = 0

\* the scans the driver has delivered to device index so far
RECURSIVE ScansDone(_, _)
ScansDone(events, index) ==
    IF events = <<>> THEN 0
    ELSE (IF Head(events).fn = "get_formatted_spectrum" /\ Head(events).dev = index
             /\ Head(events).err = 0
          THEN 1 ELSE 0) + ScansDone(Tail(events), index)

\* what the driver may do in a scan: store the spectrum, fail the scan, or
\* fail a serial number query of repair_false_pixels
ScanResponses(data, serial, silent) ==
    {[e |-> 0, data |-> data, errs |-> <<0, 0>>],
     [e |-> 1, data |-> data, errs |-> <<0, 0>>],
     [e |-> 0, data |-> data, errs |-> <<1, 0>>]}
    \cup (IF serial = "FLMS03141" /\ ~silent
          THEN {[e |-> 0, data |-> data, errs |-> <<0, 1>>]}
          ELSE {})

ScanSucceeds(r) == r.e = 0 /\ r.errs = <<0, 0>>

\* the driver's doings over one read_spectrum of k scans: k successful scans,
\* or fewer of them and a failure
ScanRuns(k, serial, silent) ==
    IF k = 0 THEN {<<>>}
    ELSE {r \in UNION {[1..m -> ScanResponses(<<>>, serial, silent)] : m \in 1..k} :
             /\ \A i \in 1..(Len(r) - 1) : ScanSucceeds(r[i])
             /\ Len(r) = k \/ ~ScanSucceeds(r[Len(r)])}

\* a run with the spectra of its scans filled in, for a device of p pixels
\* that has had base scans before
WithData(r, p, base) == [i \in 1..Len(r) |-> [r[i] EXCEPT !.data = ScanData(p, base + i - 1)]]

\* Meter::pre, moos.cpp:751-771: one probe of the open loop, and what follows
\* the loop when it ends.
PreOpen ==
    /\ pc = "pre_open"
    /\ \E e \in ErrorCodes :
          /\ idev >= MaxAttached => e # 0
          /\ error' = e
          /\ log' = Append(log, Drv("open_spectrometer", idev, e))
          /\ devices' = IF e # 0 THEN devices ELSE Append(devices, Device(idev))
          /\ IF e = 0 /\ idev + 1 < MAX_DEVICES
             THEN pc' = "pre_open" /\ idev' = idev + 1
             ELSE /\ pc' = IF devices' = <<>> THEN "exit" ELSE "pre_identity"
                  /\ idev' = 0
    /\ UNCHANGED <<cfg, hw, build, integration_times_micro_seconds, it, unitVars>>

\* Meter::pre, moos.cpp:773-777: serial number and model name of one device,
\* both called as operands of one output expression: the language leaves to
\* the compiler which of the two calls is made first.  The second is not made
\* where the first exits.
PreIdentity ==
    /\ pc = "pre_identity"
    /\ \E e1 \in ErrorCodes, e2 \in ErrorCodes :
       \E s \in {serial_number(ThisDevice.index, ThisSerial, e1)} :
       \E m \in {model_name(ThisDevice.index, "FLAME", e2)} :
       \E order \in {IF build = "serial_number" THEN <<s, m>> ELSE <<m, s>>} :
          /\ order[1].exit => order[2].events[1].err = 0
          /\ log' = log \o order[1].events
                        \o (IF order[1].exit THEN <<>> ELSE order[2].events)
          /\ IF s.exit \/ m.exit
             THEN pc' = "exit" /\ idev' = idev
             ELSE Advance("pre_identity", "pre_pixels")
    /\ UNCHANGED <<cfg, hw, build, devices, error, integration_times_micro_seconds, it,
                   unitVars>>

\* Meter::pre, moos.cpp:779-780: read_pixels of one device.
PreReadPixels ==
    /\ pc = "pre_pixels"
    /\ \E errs \in [1..3 -> ErrorCodes] :
          LET r == read_pixels(ThisDevice, ThisSerial, cfg.silent, errs)
          IN  /\ devices' = [devices EXCEPT ![idev + 1] = r.dev]
              /\ log' = log \o r.events
              /\ IF r.exit
                 THEN pc' = "exit" /\ idev' = idev
                 ELSE Advance("pre_pixels", "pre_times")
    /\ UNCHANGED <<cfg, hw, build, error, integration_times_micro_seconds, it, unitVars>>

\* Meter::pre, moos.cpp:786-803.
PreIntegrationTimes ==
    /\ pc = "pre_times"
    /\ LET p == ParseIntegrationTimes(cfg.integration_time_str, Len(devices))
       IN  /\ integration_times_micro_seconds' = p.times
           /\ pc' = IF p.ub THEN "ub" ELSE "pre_configure"
    /\ UNCHANGED <<cfg, hw, build, devices, error, it, idev, log, unitVars>>

\* Meter::pre, moos.cpp:809-824: integration time and trigger mode of one device.
PreConfigure ==
    /\ pc = "pre_configure"
    /\ \E e1 \in ErrorCodes, e2 \in ErrorCodes :
          LET t == Drv("set_integration_time_microsec", ThisDevice.index, e1)
              m == Drv("set_trigger_mode", ThisDevice.index, e2)
          IN  /\ e1 # 0 => e2 = 0
              /\ IF check_for_error(e1) = "exit"
                 THEN /\ error' = e1
                      /\ log' = Append(log, t)
                      /\ pc' = "exit" /\ idev' = idev
                 ELSE /\ error' = e2
                      /\ log' = log \o <<t, m>>
                      /\ IF check_for_error(e2) = "exit"
                         THEN pc' = "exit" /\ idev' = idev
                         ELSE Advance("pre_configure", "pre_wavelengths")
    /\ UNCHANGED <<cfg, hw, build, devices, integration_times_micro_seconds, it, unitVars>>

\* AfterSetup with the calibration entered whatever the option says
AfterSetup_Always == "cal_wait_reference"

\* Meter::pre, moos.cpp:850: if (calibrate) the calibration follows the setup,
\* otherwise pre() returns and task() is called.
AfterSetup == IF cfg.calibrate THEN "cal_wait_reference" ELSE "task"

\* Meter::pre, moos.cpp:826-848: read_wavelengths of one device; the message
\* reads wavelengths[0] and wavelengths[1].
PreWavelengths ==
    /\ pc = "pre_wavelengths"
    /\ \E e \in ErrorCodes :
          LET r == read_wavelengths(ThisDevice, e)
          IN  /\ devices' = [devices EXCEPT ![idev + 1] = r.dev]
              /\ log' = log \o r.events
              /\ IF r.exit
                 THEN pc' = "exit" /\ idev' = idev
                 ELSE IF r.dev.pixels < 2
                 THEN pc' = "ub" /\ idev' = idev
                 ELSE Advance("pre_wavelengths", AfterSetup)
    /\ UNCHANGED <<cfg, hw, build, error, integration_times_micro_seconds, it, unitVars>>

\* Meter::pre, moos.cpp:861, 880, 899: cin.get() returns.
CinGet ==
    /\ pc \in {"cal_wait_reference", "cal_wait_background", "cal_wait_fill"}
    /\ pc' = CASE pc = "cal_wait_reference" -> "cal_reference"
               [] pc = "cal_wait_background" -> "cal_background"
               [] pc = "cal_wait_fill" -> "task"
    /\ log' = Append(log, Event("cin.get", -1, 0, ""))
    /\ UNCHANGED <<cfg, hw, build, devices, error, integration_times_micro_seconds, it,
                   idev, unitVars>>

\* SetBaseline assigning the spectrum to both baselines
SetBaseline_Both(dev, baseline) ==
    [dev EXCEPT !.reference_spectrum = dev.formatted_spectrum,
                !.background_spectrum = dev.formatted_spectrum]

\* Meter::pre, moos.cpp:868 and 887: device.reference_spectrum =
\* device.formatted_spectrum, device.background_spectrum = device.formatted_spectrum
SetBaseline(dev, baseline) ==
    IF baseline = "reference"
    THEN [dev EXCEPT !.reference_spectrum = dev.formatted_spectrum]
    ELSE [dev EXCEPT !.background_spectrum = dev.formatted_spectrum]

\* One pass of a calibration loop, moos.cpp:862-874 and 881-893: the spectrum
\* is read, assigned to the baseline, saved and shown.
Calibrate(baseline, here, next) ==
    \E run \in ScanRuns(cfg.scans_to_average, ThisSerial, cfg.silent) :
    \E r \in {read_spectrum(ThisDevice, ThisSerial, cfg.scans_to_average,
                            cfg.boxcar_width, cfg.silent,
                            WithData(run, ThisDevice.pixels,
                                     ScansDone(log, ThisDevice.index)))} :
       IF r.exit \/ r.ub
       THEN /\ devices' = [devices EXCEPT ![idev + 1] = r.dev]
            /\ log' = log \o r.events
            /\ pc' = IF r.exit THEN "exit" ELSE "ub"
            /\ idev' = idev
       ELSE \E d1 \in {SetBaseline(r.dev, baseline)} :
            \E opened \in BOOLEAN :
            \E sv \in {save_spectrum(d1, baseline, opened)} :
               /\ devices' = [devices EXCEPT ![idev + 1] = d1]
               /\ IF sv.outcome = "true"
                  THEN /\ log' = log \o r.events \o sv.events
                                 \o <<Event("TextDiagram", d1.index, 0, baseline)>>
                       /\ Advance(here, next)
                  ELSE /\ log' = log \o r.events
                       /\ pc' = sv.outcome
                       /\ idev' = idev

CalReference ==
    /\ pc = "cal_reference"
    /\ Calibrate("reference", "cal_reference", "cal_wait_background")
    /\ UNCHANGED <<cfg, hw, build, error, integration_times_micro_seconds, it, unitVars>>

CalBackground ==
    /\ pc = "cal_background"
    /\ Calibrate("background", "cal_background", "cal_wait_fill")
    /\ UNCHANGED <<cfg, hw, build, error, integration_times_micro_seconds, it, unitVars>>

\* the whole part of a non-negative double: static_cast<unsigned long>
Truncate(x) == x.n \div x.d

\* SleepFor with the limits themselves on the side of the larger unit
SleepFor_FromLimit(post_scans_sleep) ==
    IF ~RLess(post_scans_sleep, R(600))
    THEN [unit |-> "minutes", count |-> Truncate(RDiv(post_scans_sleep, R(60)))]
    ELSE IF ~RLess(post_scans_sleep, R(10))
    THEN [unit |-> "seconds", count |-> Truncate(RMul(post_scans_sleep, R(1)))]
    ELSE [unit |-> "milliseconds", count |-> Truncate(RMul(post_scans_sleep, R(1000)))]

\* Meter::task, moos.cpp:943-952: the timer unit and the count slept for
SleepFor(post_scans_sleep) ==
    IF RLess(R(600), post_scans_sleep)
    THEN [unit |-> "minutes", count |-> Truncate(RDiv(post_scans_sleep, R(60)))]
    ELSE IF RLess(R(10), post_scans_sleep)
    THEN [unit |-> "seconds", count |-> Truncate(RMul(post_scans_sleep, R(1)))]
    ELSE [unit |-> "milliseconds", count |-> Truncate(RMul(post_scans_sleep, R(1000)))]

\* LoopCondition letting one more pass through
LoopCondition_Inclusive == it <= cfg.iterations

\* Meter::task, moos.cpp:911: it < iterations
LoopCondition == it < cfg.iterations

\* Meter::task, moos.cpp:911-917: the loop condition and the head of a pass.
\* A loop that never ends is followed for MaxIterations + 1 passes.
TaskLoop ==
    /\ pc = "task"
    /\ LoopCondition => it <= MaxIterations
    /\ pc' = IF LoopCondition THEN "task_device" ELSE "post_close"
    /\ idev' = 0
    /\ UNCHANGED <<cfg, hw, build, devices, error, integration_times_micro_seconds, it, log,
                   unitVars>>

\* Meter::task, moos.cpp:919-940: one device in one pass of the loop.
TaskDevice ==
    /\ pc = "task_device"
    /\ \E run \in ScanRuns(cfg.scans_to_average, ThisSerial, cfg.silent) :
       \E r \in {read_spectrum(ThisDevice, ThisSerial, cfg.scans_to_average,
                               cfg.boxcar_width, cfg.silent,
                               WithData(run, ThisDevice.pixels,
                                        ScansDone(log, ThisDevice.index)))} :
          IF r.exit \/ r.ub
          THEN /\ devices' = [devices EXCEPT ![idev + 1] = r.dev]
               /\ log' = log \o r.events
               /\ pc' = IF r.exit THEN "exit" ELSE "ub"
               /\ idev' = idev
          ELSE \E opened1 \in BOOLEAN :
               \E sv \in {save_spectrum(r.dev, "spectrum", opened1)} :
                  IF sv.outcome # "true"
                  THEN /\ devices' = [devices EXCEPT ![idev + 1] = r.dev]
                       /\ log' = log \o r.events
                       /\ pc' = sv.outcome
                       /\ idev' = idev
                  ELSE IF r.dev.reference_spectrum = <<>>
                  THEN /\ devices' = [devices EXCEPT ![idev + 1] = r.dev]
                       /\ log' = log \o r.events \o sv.events
                       /\ Advance("task_device", "task_sleep")
                  ELSE \E ct \in {calc_transmission(r.dev)} :
                       IF ct.outcome = "abort"
                       THEN /\ devices' = [devices EXCEPT ![idev + 1] = r.dev]
                            /\ log' = log \o r.events \o sv.events
                            /\ pc' = "abort"
                            /\ idev' = idev
                       ELSE \E opened2 \in BOOLEAN :
                            \E st \in {save_transmission(ct.dev, "transmission", opened2)} :
                               /\ devices' = [devices EXCEPT ![idev + 1] = ct.dev]
                               /\ IF st.outcome \in {"true", "false"}
                                  THEN /\ log' = log \o r.events \o sv.events \o st.events
                                                 \o <<Event("TextDiagram", r.dev.index, 0,
                                                            "transmission")>>
                                       /\ Advance("task_device", "task_sleep")
                                  ELSE /\ log' = log \o r.events \o sv.events
                                       /\ pc' = st.outcome
                                       /\ idev' = idev
    /\ UNCHANGED <<cfg, hw, build, error, integration_times_micro_seconds, it, unitVars>>

\* Meter::task, moos.cpp:943-952: the sleep that ends a pass of the loop.
TaskSleep ==
    /\ pc = "task_sleep"
    /\ LET s == SleepFor(cfg.post_scans_sleep)
       IN  log' = Append(log, [fn |-> "sleep_for", dev |-> -1, err |-> 0,
                               what |-> s.unit, n |-> s.count])
    /\ it' = it + 1
    /\ pc' = "task"
    /\ UNCHANGED <<cfg, hw, build, devices, error, integration_times_micro_seconds, idev,
                   unitVars>>

\* Meter::post, moos.cpp:968-975: one device is closed.
PostClose ==
    /\ pc = "post_close"
    /\ \E e \in ErrorCodes :
          /\ error' = e
          /\ log' = Append(log, Drv("close_spectrometer", ThisDevice.index, e))
          /\ IF check_for_error(e) = "exit"
             THEN pc' = "exit" /\ idev' = idev
             ELSE Advance("post_close", "done")
    /\ UNCHANGED <<cfg, hw, build, devices, integration_times_micro_seconds, it, unitVars>>

\* Meter::run, moos.cpp:995-1001: pre(), task(), post().
Next ==
    \/ PreOpen
    \/ PreIdentity
    \/ PreReadPixels
    \/ PreIntegrationTimes
    \/ PreConfigure
    \/ PreWavelengths
    \/ CinGet
    \/ CalReference
    \/ CalBackground
    \/ TaskLoop
    \/ TaskDevice
    \/ TaskSleep
    \/ PostClose

Spec == Init /\ [][Next]_vars

(***************************************************************************)
(* What a run of the Meter has done, read from its log.                    *)
(***************************************************************************)
RECURSIVE Confirmations(_)
Confirmations(events) ==
    IF events = <<>> THEN 0
    ELSE (IF Head(events).fn = "cin.get" THEN 1 ELSE 0) + Confirmations(Tail(events))

\* the driver calls of the setup: discovery, pixel count, integration time,
\* trigger mode, wavelengths
SetupCalls ==
    {"open_spectrometer", "get_model", "get_formatted_spectrum_length",
     "set_integration_time_microsec", "set_trigger_mode", "get_wavelengths"}

\* the steps of calibration and acquisition
WorkSteps == {"cin.get", "get_formatted_spectrum", "save", "TextDiagram", "sleep_for"}

SetupStates ==
    {"pre_open", "pre_identity", "pre_pixels", "pre_times", "pre_configure",
     "pre_wavelengths"}

CalibrationStates ==
    {"cal_wait_reference", "cal_reference", "cal_wait_background", "cal_background",
     "cal_wait_fill"}

LoopStates == {"task", "task_device", "task_sleep", "post_close", "done"}

Terminated == {"done", "exit", "abort"}

SetupComplete ==
    /\ devices # <<>>
    /\ Len(integration_times_micro_seconds) = Len(devices)
    /\ \A k \in 1..Len(devices) :
          /\ devices[k].index = k - 1
          /\ devices[k].pixels > 0
          /\ Len(devices[k].wavelengths) = devices[k].pixels

\* the channels closed, in the order of the close calls
CloseOrder ==
    LET closes == SelectSeq(log, LAMBDA ev : ev.fn = "close_spectrometer")
    IN  [k \in 1..Len(closes) |-> closes[k].dev]

\* the channels opened, in discovery order
DiscoveryOrder == [k \in 1..Len(devices) |-> devices[k].index]

\* C6: on every run that got past channel discovery every opened channel is
\* closed exactly once, in discovery order, also where an earlier setup,
\* calibration or acquisition step failed with a driver error.
C6_EveryHandleClosedOnce ==
    (pc \in Terminated /\ devices # <<>>) => CloseOrder = DiscoveryOrder

\* C7: a driver error returned while closing channel i does not prevent the
\* close call for every channel after i in discovery order.
C7_CloseErrorDoesNotStopClosing ==
    pc \in Terminated =>
        \A i \in 1..Len(log) :
            (log[i].fn = "close_spectrometer" /\ log[i].err # 0) =>
                \A k \in 1..Len(devices) :
                    devices[k].index > log[i].dev =>
                        \E j \in (i + 1)..Len(log) :
                            /\ log[j].fn = "close_spectrometer"
                            /\ log[j].dev = devices[k].index

\* C8: when the driver's identity query (serial number, model name) reports an
\* error the operation returns and the run continues: the process is not
\* terminated by it.
C8_IdentityErrorContinues ==
    \A i \in 1..Len(log) :
        (log[i].fn \in {"get_serial_number", "get_model"} /\ log[i].err # 0) =>
            ~(pc = "exit" /\ i = Len(log))

\* C9: setup completes before any calibration or acquisition step; calibration
\* happens only if requested, each baseline at most once per channel, every
\* reference step after the first and before the second confirmation, every
\* background step after the second and before the third, every step of the
\* acquisition loop after the third (after none when no calibration was
\* requested); after setup a run that did not ask for calibration is in the
\* loop, and so is a calibrating run after its third confirmation.
C9_LifecycleOrdering ==
    LET n == Len(log)
        confirmations == {i \in 1..n : log[i].fn = "cin.get"}
        confirmed == Cardinality(confirmations)
        \* the confirmations received up to the i-th event of the log
        ConfirmedAt(i) == Cardinality({c \in confirmations : c <= i})
        work == {i \in 1..n : log[i].fn \in WorkSteps}
        setup == {i \in 1..n : log[i].fn \in SetupCalls}
        baselines == {i \in 1..n : log[i].what \in {"reference", "background"}}
        loopConfirmations == IF cfg.calibrate THEN 3 ELSE 0
        failed == {"exit", "abort", "ub"}
    IN  /\ \A i \in work, j \in setup : j < i
        /\ (work # {} \/ pc \in CalibrationStates \cup LoopStates) => SetupComplete
        /\ ~cfg.calibrate =>
              /\ pc \notin CalibrationStates
              /\ confirmations = {}
              /\ baselines = {}
              /\ \A k \in 1..Len(devices) : /\ devices[k].reference_spectrum = <<>>
                                            /\ devices[k].background_spectrum = <<>>
        /\ confirmed <= 3
        /\ \A i \in work :
              /\ log[i].what = "reference" => ConfirmedAt(i) = 1
              /\ log[i].what = "background" => ConfirmedAt(i) = 2
              /\ (log[i].what \in {"spectrum", "transmission"} \/ log[i].fn = "sleep_for")
                    => ConfirmedAt(i) = loopConfirmations
              /\ log[i].fn = "get_formatted_spectrum" =>
                    IF cfg.calibrate THEN ConfirmedAt(i) \in 1..3 ELSE ConfirmedAt(i) = 0
        /\ \A i \in baselines, j \in baselines :
              (/\ log[i].what = log[j].what /\ log[i].fn = log[j].fn
               /\ log[i].dev = log[j].dev) => i = j
        /\ \A k \in 1..Len(devices) :
              /\ devices[k].reference_spectrum # <<>> => confirmed >= 1
              /\ devices[k].background_spectrum # <<>> => confirmed >= 2
              /\ confirmed >= 2 => Len(devices[k].reference_spectrum) = devices[k].pixels
              /\ confirmed >= 3 => Len(devices[k].background_spectrum) = devices[k].pixels
        /\ pc \in LoopStates => confirmed = loopConfirmations
        /\ (pc \notin SetupStates \cup failed /\ confirmed = loopConfirmations)
              => pc \in LoopStates

\* a calibrating run in its acquisition loop, both baselines saved and a
\* transmission written
C9_Witness ==
    /\ cfg.calibrate
    /\ pc = "task_sleep"
    /\ Confirmations(log) = 3
    /\ \E i \in 1..Len(log), j \in 1..Len(log), k \in 1..Len(log) :
          /\ i < j /\ j < k
          /\ log[i].fn = "save" /\ log[i].what = "reference"
          /\ log[j].fn = "save" /\ log[j].what = "background"
          /\ log[k].fn = "save" /\ log[k].what = "transmission"

\* the driver calls of configuration and acquisition
FatalCalls ==
    {"get_formatted_spectrum_length", "set_integration_time_microsec",
     "set_trigger_mode", "get_wavelengths", "get_formatted_spectrum"}

\* C10 as stated: as soon as a driver call during open, configuration or
\* acquisition returns a non-zero code the process terminates, and nothing
\* follows the call.
C10_AnyDriverErrorTerminates ==
    \A i \in 1..Len(log) :
        (log[i].fn \in FatalCalls \cup {"open_spectrometer"} /\ log[i].err # 0) =>
            (pc = "exit" /\ i = Len(log))

\* C10, amended: a non-zero code of a driver call of configuration (pixel
\* count, integration time, trigger mode, wavelengths) or acquisition
\* terminates the process at once, and no driver call, file write or loop pass
\* follows it; a non-zero code of an open call ends the discovery, and
\* terminates the process only if no channel has been opened.
C10_FatalDriverErrors ==
    \A i \in 1..Len(log) :
        log[i].err # 0 =>
            /\ log[i].fn \in FatalCalls => (pc = "exit" /\ i = Len(log))
            /\ log[i].fn = "open_spectrometer" =>
                  /\ \A j \in (i + 1)..Len(log) : log[j].fn # "open_spectrometer"
                  /\ Len(devices) = log[i].dev
                  /\ devices = <<>> => (pc = "exit" /\ i = Len(log))

\* a scan fails in the second pass of the acquisition loop
C10_Witness ==
    /\ pc = "exit"
    /\ it = 1
    /\ log[Len(log)].fn = "get_formatted_spectrum"
    /\ log[Len(log)].err # 0
    /\ \E i \in 1..Len(log) : log[i].fn = "save" /\ log[i].what = "spectrum"

\* the events of the acquisition loop: what the log holds after the last
\* operator confirmation
LoopEvents ==
    LET confirmations == {i \in 1..Len(log) : log[i].fn = "cin.get"}
        first == IF confirmations = {} THEN 1
                 ELSE 1 + CHOOSE i \in confirmations : \A j \in confirmations : j <= i
    IN  SubSeq(log, first, Len(log))

\* the scans, saves and sleeps of the acquisition loop, as <<step, device>>
LoopSteps ==
    LET steps == SelectSeq(LoopEvents,
                           LAMBDA ev : ev.fn \in {"get_formatted_spectrum", "save", "sleep_for"})
    IN  [k \in 1..Len(steps) |->
            <<IF steps[k].fn = "save" THEN steps[k].what ELSE steps[k].fn, steps[k].dev>>]

\* one pass over ndev channels: per channel scans_to_average scans, the
\* spectrum file and, with a reference baseline, the transmission file; then
\* the sleep.  The k-th step (from 0) of a sequence of such passes:
PassStep(k, ndev, scans, withReference) ==
    LET perDevice == scans + 1 + (IF withReference THEN 1 ELSE 0)
        perPass == ndev * perDevice + 1
        pos == k % perPass
        dev == pos \div perDevice
        at == pos % perDevice
    IN  IF pos = perPass - 1 THEN <<"sleep_for", -1>>
        ELSE IF at < scans THEN <<"get_formatted_spectrum", dev>>
        ELSE IF at = scans THEN <<"spectrum", dev>>
        ELSE <<"transmission", dev>>

PassLength(ndev, scans, withReference) ==
    ndev * (scans + 1 + (IF withReference THEN 1 ELSE 0)) + 1

\* teardown has been reached: the close loop is running or has run
TeardownReached ==
    \/ pc \in {"post_close", "done"}
    \/ \E i \in 1..Len(log) : log[i].fn = "close_spectrometer"

\* C11: with a finite iteration count N >= 1, a run that reaches teardown has
\* made exactly N passes, each acquiring and saving every channel once in
\* discovery order (the transmission only for channels with a reference
\* baseline) and ending with the sleep; no run makes more than N passes, and a
\* run with the infinite sentinel never reaches teardown.
C11_LoopTermination ==
    LET ndev == Len(devices)
        perPass == PassLength(ndev, cfg.scans_to_average, cfg.calibrate)
    IN  /\ it <= cfg.iterations
        /\ pc \in {"task_device", "task_sleep"} => it < cfg.iterations
        /\ TeardownReached =>
              /\ cfg.iterations # LONG_MAX
              /\ it = cfg.iterations
              /\ Len(SelectSeq(LoopSteps, LAMBDA st : st[1] = "sleep_for")) = cfg.iterations
              /\ Len(LoopSteps) = cfg.iterations * perPass
        /\ (pc \in LoopStates \/ TeardownReached) =>
              /\ \A k \in 1..Len(LoopSteps) :
                    LoopSteps[k] = PassStep(k - 1, ndev, cfg.scans_to_average, cfg.calibrate)
              /\ Len(LoopSteps) >= it * perPass
              /\ Len(LoopSteps) < (it + 1) * perPass

\* two passes over two calibrated channels, and the teardown after them
C11_Witness ==
    /\ pc = "done"
    /\ cfg.iterations = 2
    /\ cfg.calibrate
    /\ Len(devices) = 2
    /\ it = 2

\* C12: in every step of a run each baseline of each channel is empty or of
\* length pixels; reference_spectrum changes only in the reference loop of the
\* calibration and background_spectrum only in its background loop, only for
\* the channel the loop is at and only from empty, so each is assigned at
\* most once and no step of the acquisition loop or teardown changes it.
C12_BaselinesWriteOnce ==
    [][\A k \in 1..Len(devices') :
          LET old == IF k <= Len(devices) THEN devices[k] ELSE Device(k - 1)
              new == devices'[k]
          IN  /\ Len(new.reference_spectrum) \in {0, new.pixels}
              /\ Len(new.background_spectrum) \in {0, new.pixels}
              /\ new.reference_spectrum # old.reference_spectrum =>
                    /\ pc = "cal_reference"
                    /\ k = idev + 1
                    /\ old.reference_spectrum = <<>>
              /\ new.background_spectrum # old.background_spectrum =>
                    /\ pc = "cal_background"
                    /\ k = idev + 1
                    /\ old.background_spectrum = <<>>
      ]_vars

\* a calibrated run at its end: after a pass of the loop every channel
\* still holds both baselines, and a spectrum different from the reference
C12_Witness ==
    /\ pc = "done"
    /\ cfg.calibrate
    /\ it = 1
    /\ Len(devices) = 2
    /\ \A k \in 1..Len(devices) :
          /\ Len(devices[k].reference_spectrum) = devices[k].pixels
          /\ Len(devices[k].background_spectrum) = devices[k].pixels
          /\ devices[k].formatted_spectrum # devices[k].reference_spectrum
          /\ devices[k].reference_spectrum # devices[k].background_spectrum

(***************************************************************************)
(* The Meter is not running while a single call is examined, and no single *)
(* call is examined while the Meter runs.                                  *)
(***************************************************************************)
RunOff ==
    /\ pc = "off"
    /\ cfg = <<>>
    /\ hw = <<>>
    /\ build = ""
    /\ devices = <<>>
    /\ error = 0
    /\ integration_times_micro_seconds = <<>>
    /\ it = 0
    /\ idev = 0
    /\ log = <<>>

(***************************************************************************)
(* One call of average_vector on a drawn vector and boxcar.                *)
(***************************************************************************)
Samples == {R(k) : k \in 0..MaxSample} \cup {R(-1)}

InitAverage ==
    /\ RunOff
    /\ upc = "ready"
    /\ \E n \in 0..MaxLen : arg \in [X : [1..n -> Samples], boxcar : 0..MaxBoxcar]
    /\ res = <<>>

CallAverageVector ==
    /\ upc = "ready"
    /\ res' = average_vector(arg.X, arg.boxcar)
    /\ upc' = "done"
    /\ UNCHANGED <<arg, runVars>>

NextAverage == CallAverageVector

SpecAverage == InitAverage /\ [][NextAverage]_vars

\* the arithmetic mean of X[from..to] (0-based, inclusive)
RECURSIVE SumOf(_, _, _)
SumOf(X, from, to) == IF from > to THEN R(0) ELSE RAdd(At(X, from), SumOf(X, from + 1, to))

MeanOf(X, from, to) == RDiv(SumOf(X, from, to), R(to - from + 1))

\* C1: for 0 < r < n/2 every interior output value X'[i], r <= i < n-r, is the
\* mean of the 2r+1 samples of the original input centred at i.
C1_InteriorIsMeanOfOriginal ==
    (upc = "done" /\ arg.boxcar > 0 /\ 2 * arg.boxcar < Len(arg.X))
        => \A i \in arg.boxcar .. (Len(arg.X) - arg.boxcar - 1) :
               At(res.X, i) = MeanOf(arg.X, i - arg.boxcar, i + arg.boxcar)

\* C14: for 0 < r and 2r <= n the result has length n, its first r positions
\* all hold the mean of the first r original samples and its last r positions
\* all hold the mean of the last r original samples.
C14_EndPlateaus ==
    (upc = "done" /\ arg.boxcar > 0 /\ 2 * arg.boxcar <= Len(arg.X))
        => LET n == Len(arg.X)
               r == arg.boxcar
           IN  /\ res.ret /\ ~res.ub
               /\ Len(res.X) = n
               /\ \A i \in 0 .. (r - 1) : At(res.X, i) = MeanOf(arg.X, 0, r - 1)
               /\ \A i \in (n - r) .. (n - 1) : At(res.X, i) = MeanOf(arg.X, n - r, n - 1)

\* five samples smoothed with r = 2: plateaus 1 and 1/2 around the centre 4/5
C14_Witness ==
    /\ upc = "done"
    /\ arg.boxcar = 2
    /\ arg.X = <<R(0), R(2), R(1), R(2), R(-1)>>
    /\ res.X = <<R(1), R(1), Rat(4, 5), Rat(1, 2), Rat(1, 2)>>

\* C17: for a non-empty input with r > 0 and n < 2r, n < r included, the
\* centre loop performs no iteration and every index used lies in 0..n-1.
C17_ShortInputInRange ==
    (upc = "done" /\ arg.X # <<>> /\ arg.boxcar > 0 /\ Len(arg.X) < 2 * arg.boxcar)
        => res.iterations = 0 /\ ~res.ub

(***************************************************************************)
(* One call of Device::calc_transmission on a drawn device: each spectrum  *)
(* is unset or of length pixels, the former transmission unset or set.     *)
(***************************************************************************)
MaxPixels == 2       \* largest pixel count of a drawn device

Levels == {R(0), R(1), R(3)}

SpectraOf(p) == {<<>>} \cup [1..p -> Levels]

\* the devices of p pixels
DrawnDevices(p) ==
    { [Device(0) EXCEPT !.pixels = p,
                        !.wavelengths = [i \in 1..p |-> R(400 + i)],
                        !.formatted_spectrum = S,
                        !.reference_spectrum = Rf,
                        !.background_spectrum = B,
                        !.transmission = T] :
          S \in SpectraOf(p), Rf \in SpectraOf(p), B \in SpectraOf(p),
          T \in {<<>>, [i \in 1..p |-> R(7)]} }

InitTransmission ==
    /\ RunOff
    /\ upc = "ready"
    /\ \E p \in 1..MaxPixels : arg \in [dev : DrawnDevices(p)]
    /\ res = <<>>

CallCalcTransmission ==
    /\ upc = "ready"
    /\ res' = calc_transmission(arg.dev)
    /\ upc' = "done"
    /\ UNCHANGED <<arg, runVars>>

NextTransmission == CallCalcTransmission

SpecTransmission == InitTransmission /\ [][NextTransmission]_vars

AllOfLengthPixels(dev) ==
    /\ Len(dev.formatted_spectrum) = dev.pixels
    /\ Len(dev.reference_spectrum) = dev.pixels
    /\ Len(dev.background_spectrum) = dev.pixels

\* C2: when S, R and B all have length pixels, after calc_transmission the
\* transmission has length pixels, transmission[i] = (S[i]-B[i])/(R[i]-B[i]) at
\* every index, and S, R, B and wavelengths are unchanged.
C2_TransmissionFormula ==
    (upc = "done" /\ AllOfLengthPixels(arg.dev)) =>
        /\ res.outcome = "true"
        /\ Len(res.dev.transmission) = arg.dev.pixels
        /\ \A i \in 1..arg.dev.pixels :
              LET S == arg.dev.formatted_spectrum[i]
                  Rf == arg.dev.reference_spectrum[i]
                  B == arg.dev.background_spectrum[i]
              IN  res.dev.transmission[i] = Rat(S.n - B.n, Rf.n - B.n)
        /\ res.dev.formatted_spectrum = arg.dev.formatted_spectrum
        /\ res.dev.reference_spectrum = arg.dev.reference_spectrum
        /\ res.dev.background_spectrum = arg.dev.background_spectrum
        /\ res.dev.wavelengths = arg.dev.wavelengths

C2_Witness ==
    /\ upc = "done"
    /\ arg.dev.pixels = 2
    /\ arg.dev.formatted_spectrum = <<R(1), R(3)>>
    /\ arg.dev.reference_spectrum = <<R(3), R(3)>>
    /\ arg.dev.background_spectrum = <<R(0), R(1)>>
    /\ res.dev.transmission = <<Rat(1, 3), R(1)>>

\* C3: calc_transmission on a channel with pixels > 0 whose reference or
\* background baseline is not set fails with an assertion violation and
\* leaves the transmission field unchanged.
C3_MissingBaselineAborts ==
    (/\ upc = "done"
     /\ arg.dev.pixels > 0
     /\ (arg.dev.reference_spectrum = <<>> \/ arg.dev.background_spectrum = <<>>))
        => /\ res.outcome = "abort"
           /\ res.dev.transmission = arg.dev.transmission

C3_Witness ==
    /\ upc = "done"
    /\ arg.dev.pixels = 2
    /\ Len(arg.dev.formatted_spectrum) = 2
    /\ Len(arg.dev.reference_spectrum) = 2
    /\ arg.dev.background_spectrum = <<>>
    /\ arg.dev.transmission # <<>>
    /\ res.outcome = "abort"
    /\ res.dev.transmission = arg.dev.transmission

(***************************************************************************)
(* One call of Device::repair_false_pixels on a drawn raw buffer, for a    *)
(* device of a drawn serial number.                                        *)
(***************************************************************************)
MaxBuffer == 3       \* longest raw buffer handed to repair_false_pixels

RawValues == {R(-2), R(0), R(1), R(2), R(3), R(5)}

InitRepair ==
    /\ RunOff
    /\ upc = "ready"
    /\ \E n \in 3..MaxBuffer :
          arg \in [serial : Serials, buffer : [1..n -> RawValues],
                   silent : BOOLEAN, errs : [1..2 -> ErrorCodes]]
    /\ res = <<>>

CallRepairFalsePixels ==
    /\ upc = "ready"
    /\ res' = repair_false_pixels(0, arg.serial, arg.buffer, arg.silent, arg.errs)
    /\ upc' = "done"
    /\ UNCHANGED <<arg, runVars>>

NextRepair == CallRepairFalsePixels

SpecRepair == InitRepair /\ [][NextRepair]_vars

\* x lies in the band from half of ref to double ref (both whole numbers)
InBand(x, ref) == 2 * x.n >= ref.n /\ x.n <= 2 * ref.n

MaxValues == 3       \* most values written into the integration-time string
MaxChannels == 3     \* most opened devices in the parsing block

Tok_0_001 == <<"0", ".", "0", "0", "1">>
Tok_0_002 == <<"0", ".", "0", "0", "2">>
Tok_0_0015 == <<"0", ".", "0", "0", "1", "5">>
Tok_1e_3 == <<"1", "e", "-", "3">>

Tokens == {Tok_0_001, Tok_0_002, Tok_0_0015, Tok_1e_3}

\* what each written value is in whole microseconds
MicrosecondsOf(tok) ==
    CASE tok = Tok_0_001 -> 1000
      [] tok = Tok_0_002 -> 2000
      [] tok = Tok_0_0015 -> 1500
      [] tok = Tok_1e_3 -> 1000

RECURSIVE Join(_, _)
Join(tokens, delimiter) ==
    IF Len(tokens) = 1 THEN tokens[1]
    ELSE tokens[1] \o <<delimiter>> \o Join(Tail(tokens), delimiter)

InitParse ==
    /\ RunOff
    /\ upc = "ready"
    /\ \E k \in 1..MaxValues :
       \E tokens \in [1..k -> Tokens], closing \in BOOLEAN, ndev \in 1..MaxChannels :
          arg = [tokens |-> tokens,
                 integration_time_str |->
                     Join(tokens, ":") \o (IF closing THEN <<":">> ELSE <<>>),
                 ndev |-> ndev]
    /\ res = <<>>

CallParseIntegrationTimes ==
    /\ upc = "ready"
    /\ res' = ParseIntegrationTimes(arg.integration_time_str, arg.ndev)
    /\ upc' = "done"
    /\ UNCHANGED <<arg, runVars>>

NextParse == CallParseIntegrationTimes

SpecParse == InitParse /\ [][NextParse]_vars

\* C4: for a string of k >= 1 values and d >= 1 opened channels the result has
\* exactly d entries; entry i is the i-th value in whole microseconds for
\* i < k and the last given value for i >= k.
C4_IntegrationTimes ==
    upc = "done" =>
        /\ ~res.ub
        /\ Len(res.times) = arg.ndev
        /\ \A i \in 1..arg.ndev :
              res.times[i] =
                  MicrosecondsOf(arg.tokens[IF i <= Len(arg.tokens) THEN i
                                            ELSE Len(arg.tokens)])

C4_Witness ==
    /\ upc = "done"
    /\ arg.tokens = <<Tok_0_001, Tok_0_002>>
    /\ arg.ndev = 3
    /\ res.times = <<1000, 2000, 2000>>

(***************************************************************************)
(* One call of Device::read_spectrum with boxcar_width = 0 on a drawn      *)
(* device: its spectrum and buffer unset or of length pixels from a call   *)
(* before, the driver storing a drawn raw spectrum in each scan.           *)
(***************************************************************************)
MaxScans == 2        \* largest scans_to_average of a drawn call
MaxScanPixels == 3   \* largest pixel count of a drawn device

RawLevels == {R(1), R(3)}

InitReadSpectrum ==
    /\ RunOff
    /\ upc = "ready"
    /\ \E p \in 3..MaxScanPixels, k \in 1..MaxScans :
       \E before \in {<<>>, [i \in 1..p |-> R(7)]} :
          arg \in [dev : {[Device(0) EXCEPT !.pixels = p,
                                            !.formatted_spectrum = before,
                                            !.buffer = before]},
                   serial : AttachedSerials,
                   scans_to_average : {k},
                   silent : BOOLEAN,
                   raw : [1..k -> [1..p -> RawLevels]]]
    /\ res = <<>>

CallReadSpectrum ==
    /\ upc = "ready"
    /\ res' = read_spectrum(arg.dev, arg.serial, arg.scans_to_average, 0, arg.silent,
                            [j \in 1..arg.scans_to_average |->
                                [e |-> 0, data |-> arg.raw[j], errs |-> <<0, 0>>]])
    /\ upc' = "done"
    /\ UNCHANGED <<arg, runVars>>

NextReadSpectrum == CallReadSpectrum

SpecReadSpectrum == InitReadSpectrum /\ [][NextReadSpectrum]_vars

\* pixel i (from 1) of a raw scan after the point repair of the device
Repaired(serial, raw, i) ==
    IF serial = "FLMS03141" /\ i \in {1, 2} /\ ~InBand(raw[i], raw[3])
    THEN raw[3]
    ELSE raw[i]

\* the sum over the scans 1..j of the whole-number values of pixel i
RECURSIVE RepairedSum(_, _, _, _)
RepairedSum(serial, raw, j, i) ==
    IF j = 0 THEN 0
    ELSE Repaired(serial, raw[j], i).n + RepairedSum(serial, raw, j - 1, i)

MaxSleepSeconds == 720   \* longest drawn post_scans_sleep [s]
SleepStep == 50          \* distance of the drawn durations [ms]

InitSleep ==
    /\ RunOff
    /\ upc = "ready"
    /\ \E k \in 0 .. ((MaxSleepSeconds * 1000) \div SleepStep) :
          arg = [post_scans_sleep |-> Rat(k * SleepStep, 1000)]
    /\ res = <<>>

CallSleepFor ==
    /\ upc = "ready"
    /\ res' = SleepFor(arg.post_scans_sleep)
    /\ upc' = "done"
    /\ UNCHANGED <<arg, runVars>>

NextSleep == CallSleepFor

SpecSleep == InitSleep /\ [][NextSleep]_vars

\* post_scans_sleep in milliseconds
SleepMs == (arg.post_scans_sleep.n * 1000) \div arg.post_scans_sleep.d

\* the milliseconds of one tick of a timer unit
UnitMs(unit) ==
    CASE unit = "minutes" -> 60000
      [] unit = "seconds" -> 1000
      [] unit = "milliseconds" -> 1

\* C15: the timer counts milliseconds for d <= 10 s, seconds for
\* 10 s < d <= 600 s and minutes for d > 600 s.
C15_SleepUnit ==
    upc = "done" =>
        res.unit = IF SleepMs <= 10000 THEN "milliseconds"
                   ELSE IF SleepMs <= 600000 THEN "seconds"
                   ELSE "minutes"

\* exactly 600 s is slept as 600 ticks of the seconds timer
C15_Witness ==
    /\ upc = "done"
    /\ arg.post_scans_sleep = R(600)
    /\ res = [unit |-> "seconds", count |-> 600]

\* C16: for every duration d of whole milliseconds the time slept, the count
\* times the unit of the timer, is d.
C16_SleptDurationIsConfigured ==
    upc = "done" => res.count * UnitMs(res.unit) = SleepMs

====
